---- MODULE Spec2Model ----
(***************************************************************************)
(* A model of spotify2ytmusic/backend.py: the song matcher (lookup_song),  *)
(* the retried remote writes (_ytmusic_create_playlist, the append/like    *)
(* loop of copier), the de-duplicating transfer loop (copier) and its      *)
(* callers (copy_playlist, copy_all_playlists, create_playlist).           *)
(*                                                                         *)
(* Python strings are sequences of one-character strings, so that          *)
(* concatenation, prefix tests, substring tests, lower-casing and the      *)
(* bracket-stripping regular expression are computed, not assumed.         *)
(***************************************************************************)
EXTENDS Naturals, Sequences, FiniteSets, TLC

\* ------------------------------------------------------------------ bounds

\* longest title given to the bracket-stripping substitution
MaxLen == 4
\* longest song-search result list
MaxSongs == 2
\* longest album-search result list (one more than the code inspects)
MaxAlbums == 4
\* most source entries read from one source playlist
MaxTracks == 2
\* most source playlists in the export file
MaxPlaylists == 2

\* ---------------------------------------------------------------- strings

NewLine == "\n"
Openers == {"[", "("}
Closers == {"]", ")"}

Range(s) == {s[i] : i \in 1..Len(s)}

Min(S) == CHOOSE m \in S : \A n \in S : m <= n

RECURSIVE SeqsUpTo(_, _)
\* every sequence over S of length at most n
SeqsUpTo(S, n) ==
    IF n = 0 THEN {<<>>}
    ELSE LET shorter == SeqsUpTo(S, n - 1)
         IN  shorter \cup {Append(s, x) : s \in shorter, x \in S}

\* Python's `x in y` on strings
IsSubstring(x, y) ==
    \E i \in 1..(Len(y) + 1) :
        /\ i + Len(x) - 1 <= Len(y)
        /\ SubSeq(y, i, i + Len(x) - 1) = x

LowerChar(c) ==
    CASE c = "A" -> "a"
      [] c = "B" -> "b"
      [] c = "R" -> "r"
      [] OTHER -> c

\* str.lower()
Lower(s) == [i \in 1..Len(s) |-> LowerChar(s[i])]

\* str.strip() of blanks
RECURSIVE StripBlanks(_)
StripBlanks(s) ==
    IF s = <<>> THEN s
    ELSE IF Head(s) = " " THEN StripBlanks(Tail(s))
    ELSE IF s[Len(s)] = " " THEN StripBlanks(SubSeq(s, 1, Len(s) - 1))
    ELSE s

\* f"{x} by {y}"
FormatQuery(x, y) == x \o <<" ", "b", "y", " ">> \o y

\* ------------------------------------------- re.sub(r"[\[(].*?[])]", "", s)

\* Where the match that starts at the opener s[i] ends: the first closer
\* after i, provided no newline lies between ("." does not match one);
\* 0 when there is no match at i.
MatchEnd(s, i) ==
    LET closers == {j \in (i + 1)..Len(s) : s[j] \in Closers}
    IN  IF closers = {} THEN 0
        ELSE LET j == Min(closers)
             IN  IF \E k \in (i + 1)..(j - 1) : s[k] = NewLine THEN 0 ELSE j

RECURSIVE SubFrom(_, _)
\* the substitution applied to s from position i on: every non-overlapping
\* leftmost match is deleted
SubFrom(s, i) ==
    IF i > Len(s) THEN <<>>
    ELSE IF s[i] \in Openers /\ MatchEnd(s, i) # 0
         THEN SubFrom(s, MatchEnd(s, i) + 1)
         ELSE <<s[i]>> \o SubFrom(s, i + 1)

\* a substitution that deletes the first match only (re.sub with count=1)
SubFirstOnly(s) ==
    LET starts == {i \in 1..Len(s) : s[i] \in Openers /\ MatchEnd(s, i) # 0}
    IN  IF starts = {} THEN s
        ELSE LET i == Min(starts)
             IN  SubSeq(s, 1, i - 1) \o SubSeq(s, MatchEnd(s, i) + 1, Len(s))

\* song_title_without_brackets
WithoutBrackets(s) == SubFrom(s, 1)

\* ------------------------------------------------------------ lookup_song

\* song["album"]: a dict with a name, or None
Album(n) == [present |-> TRUE, name |-> n]
NoAlbum == [present |-> FALSE, name |-> <<>>]

\* a search result or an album track: the keys lookup_song and copier read
Candidate(t, as, al, v) == [title |-> t, artists |-> as, album |-> al, videoId |-> v]
NoTrack == Candidate(<<>>, <<>>, NoAlbum, "none")

\* what a remote call gives: a value, or an exception
Ok(v) == [raises |-> FALSE, value |-> v]
Fault == [raises |-> TRUE, value |-> <<>>]

\* how lookup_song ends
Return(t) == [kind |-> "return", track |-> t, exc |-> "none"]
Raise(e) == [kind |-> "raise", track |-> NoTrack, exc |-> e]

\* yt.search(query=..., filter=...)
Search(yt, query, filter) == yt[filter][query]

\* albums[:3]
AlbumLimit == 3
Take(s, n) == SubSeq(s, 1, IF Len(s) < n THEN Len(s) ELSE n)

\* The position of the first track of the album whose title is track_name
\* (0: none); the album fetch raising is caught by the loop body's try.
TrackHit(yt, browseId, track_name) ==
    LET got == yt.get_album[browseId]
    IN  IF got.raises THEN 0
        ELSE LET hits == {j \in 1..Len(got.value) : got.value[j].title = track_name}
             IN  IF hits = {} THEN 0 ELSE Min(hits)

\* the album-scoped lookup that inspects every album-search result
AlbumScopedUnlimited(yt, albums, track_name) ==
    LET hits == {i \in 1..Len(albums) : TrackHit(yt, albums[i], track_name) # 0}
    IN  IF hits = {} THEN Raise("NoAlbumTrack")
        ELSE LET i == Min(hits)
             IN  Return(yt.get_album[albums[i]].value[TrackHit(yt, albums[i], track_name)])

\* The album-scoped lookup over the album-search results `albums`:
\* the first matching track of the first inspected album that has one.
AlbumScoped(yt, albums, track_name) ==
    LET top == Take(albums, AlbumLimit)
        hits == {i \in 1..Len(top) : TrackHit(yt, top[i], track_name) # 0}
    IN  IF hits = {} THEN Raise("NoAlbumTrack")
        ELSE LET i == Min(hits)
             IN  Return(yt.get_album[top[i]].value[TrackHit(yt, top[i], track_name)])

\* case 0: songs[0]
ExactMatchLast(songs) ==
    IF songs = <<>> THEN Raise("IndexError") ELSE Return(songs[Len(songs)])

ExactMatch(songs) ==
    IF songs = <<>> THEN Raise("IndexError") ELSE Return(songs[1])

\* case 1, the test of one song, evaluated left to right as Python does:
\* "match", "skip", or the exception a missing key raises
ExtendedTestNoAlbum(song, track_name, artist_name, album_name) ==
    IF song.title # track_name THEN "skip"
    ELSE IF song.artists = <<>> THEN "IndexError"
    ELSE IF song.artists[1] # artist_name THEN "skip"
    ELSE "match"

ExtendedTest(song, track_name, artist_name, album_name) ==
    IF song.title # track_name THEN "skip"
    ELSE IF song.artists = <<>> THEN "IndexError"
    ELSE IF song.artists[1] # artist_name THEN "skip"
    ELSE IF ~song.album.present THEN "TypeError"
    ELSE IF song.album.name # album_name THEN "skip"
    ELSE "match"

RECURSIVE ExtendedMatch(_, _, _, _, _)
\* case 1: the loop over songs from position i on
ExtendedMatch(songs, i, track_name, artist_name, album_name) ==
    IF i > Len(songs) THEN Raise("ValueError")
    ELSE LET t == ExtendedTest(songs[i], track_name, artist_name, album_name)
         IN  IF t = "match" THEN Return(songs[i])
             ELSE IF t = "skip"
                  THEN ExtendedMatch(songs, i + 1, track_name, artist_name, album_name)
                  ELSE Raise(t)

\* case 2, the test of one song
ApproximateTest(song, track_name, artist_name, album_name) ==
    LET song_title_without_brackets == WithoutBrackets(song.title)
    IN  IF song_title_without_brackets = track_name /\ ~song.album.present
        THEN "TypeError"
        ELSE IF ~(\/ song_title_without_brackets = track_name
                  \/ IsSubstring(song_title_without_brackets, track_name)
                  \/ IsSubstring(track_name, song_title_without_brackets))
        THEN "skip"
        ELSE IF song.artists = <<>> THEN "IndexError"
        ELSE IF \/ song.artists[1] = artist_name
                \/ IsSubstring(artist_name, song.artists[1])
        THEN "match"
        ELSE "skip"

\* case 2, the last resort: the video search
VideoMatch(yt, track_name, artist_name) ==
    LET videos == Search(yt, FormatQuery(track_name, artist_name), "videos")
    IN  IF videos.raises THEN Raise("RemoteError")
        ELSE LET hits == {i \in 1..Len(videos.value) :
                            IsSubstring(Lower(track_name), Lower(videos.value[i].title))}
             IN  IF hits = {} THEN Raise("ValueError")
                 ELSE Return(videos.value[Min(hits)])

\* case 2 after the loop found nothing
ApproximateFallback(yt, songs, track_name, artist_name) ==
    IF songs = <<>> THEN Raise("IndexError")
    ELSE IF ~IsSubstring(Lower(track_name), Lower(songs[1].title))
         THEN VideoMatch(yt, track_name, artist_name)
    ELSE IF songs[1].artists = <<>> THEN Raise("IndexError")
    ELSE IF songs[1].artists[1] # artist_name
         THEN VideoMatch(yt, track_name, artist_name)
    ELSE Return(songs[1])

RECURSIVE ApproximateMatch(_, _, _, _, _, _)
\* case 2: the loop over songs from position i on, then the fallback
ApproximateMatch(yt, songs, i, track_name, artist_name, album_name) ==
    IF i > Len(songs) THEN ApproximateFallback(yt, songs, track_name, artist_name)
    ELSE LET t == ApproximateTest(songs[i], track_name, artist_name, album_name)
         IN  IF t = "match" THEN Return(songs[i])
             ELSE IF t = "skip"
                  THEN ApproximateMatch(yt, songs, i + 1, track_name, artist_name, album_name)
                  ELSE Raise(t)

\* the song search and the match on yt_search_algo
SongSearch(yt, track_name, artist_name, album_name, yt_search_algo) ==
    LET songs == Search(yt, FormatQuery(track_name, artist_name), "songs")
    IN  IF songs.raises THEN Raise("RemoteError")
        ELSE CASE yt_search_algo = 0 -> ExactMatch(songs.value)
               [] yt_search_algo = 1 ->
                    ExtendedMatch(songs.value, 1, track_name, artist_name, album_name)
               [] yt_search_algo = 2 ->
                    ApproximateMatch(yt, songs.value, 1, track_name, artist_name, album_name)
               [] OTHER -> Raise("ValueError")

\* lookup_song(yt, track_name, artist_name, album_name, yt_search_algo),
\* called without details
lookup_song(yt, track_name, artist_name, album_name, yt_search_algo) ==
    LET albums == Search(yt, FormatQuery(album_name, artist_name), "albums")
    IN  IF albums.raises THEN Raise("RemoteError")
        ELSE LET hit == AlbumScoped(yt, albums.value, track_name)
             IN  IF hit.kind = "return" THEN hit
                 ELSE SongSearch(yt, track_name, artist_name, album_name, yt_search_algo)

\* ------------------------------------------------------------------ state

VARIABLES
    re_sub,     \* the bracket stripping of one title: [pc, title, once, twice]
    matcher,    \* one call of lookup_song: [pc, yt, track_name, artist_name,
                \*                           album_name, yt_search_algo, result]
    pc,                 \* where the running command stands
    call,               \* the command and its arguments
    library,            \* the remote library: playlists [title, playlistId, tracks]
    library0,           \* the remote library when the command started
    liked,              \* the remote set of liked tracks
    pl_index,           \* copy_all_playlists: source playlists visited so far
    pl_name,            \* the title looked up or created
    dst_pl_id,          \* the destination playlist id, or None
    entries_read,       \* source entries the iterator has consumed
    entry,              \* iter_spotify_playlist: the kind of the entry last read
    src_track,          \* copier: the source track being processed
    dst_track,          \* copier: the candidate lookup_song returned
    tracks_added_set,   \* copier: the de-duplication set
    duplicate_count,    \* copier
    error_count,        \* copier
    attempt,            \* the retry loops' 0-based attempt number
    exception_sleep,    \* the retry loops' next delay
    raised,             \* the exception that ended the command ("none": none)
    message,            \* the message of that exception, where the code composes one
    op,         \* history: the retried remote write under way or just ended,
                \*          [kind, tries, outcome]
    slept,      \* history: the delays the retry loop of op has slept
    pause,      \* history: the delay the last step slept outside a retry loop
    resolved,   \* history: the target ids resolved in this copier invocation
    printed,    \* history: the summary the last step printed
    invocation, \* history: how many times copier has been entered
    skipped     \* history: source playlists copy_all_playlists passed over

engine == <<pc, call, library, library0, liked, pl_index, pl_name, dst_pl_id,
            entries_read, entry, src_track, dst_track, tracks_added_set, duplicate_count,
            error_count, attempt, exception_sleep, raised, message, op, slept,
            pause, resolved, printed, invocation, skipped>>

vars == <<re_sub, matcher, engine>>

\* --------------------------------------------- the bracket stripping alone

TitleChars == {"a", "(", ")", "[", "]", NewLine}

ReSubIdle == re_sub = [pc |-> "idle", title |-> <<>>, once |-> <<>>, twice |-> <<>>]

\* song["title"] is stripped
StripOnce ==
    /\ re_sub.pc = "input"
    /\ re_sub' = [re_sub EXCEPT !.pc = "once", !.once = WithoutBrackets(re_sub.title)]
    /\ UNCHANGED <<matcher, engine>>

\* the stripped title is stripped again
StripTwice ==
    /\ re_sub.pc = "once"
    /\ re_sub' = [re_sub EXCEPT !.pc = "twice", !.twice = WithoutBrackets(re_sub.once)]
    /\ UNCHANGED <<matcher, engine>>

\* ------------------------------------------------- lookup_song on its own

tA == <<"a">>
tAB == <<"a", "b">>
aR == <<"r">>
alX == <<"x">>
alY == <<"y">>

TrackNames == {tA, tAB}
ArtistNames == {aR}
AlbumNames == {alX, alY}
SearchAlgos == {0, 1, 2, 3}

\* the song-search results the remote may hold
LookupSongs ==
    { Candidate(tA, <<aR>>, Album(alX), "s1"),
      Candidate(tA, <<aR>>, NoAlbum, "s2"),
      Candidate(tA, << <<"q">> >>, Album(alX), "s3"),
      Candidate(<<"a", "b", "(", "a", ")">>, << <<"r", "s">> >>, Album(alY), "s4"),
      Candidate(<<"A">>, <<aR>>, Album(alX), "s5"),
      Candidate(tA, <<>>, Album(alX), "s6"),
      Candidate(tA, <<aR>>, Album(alY), "s7") }

SongResults == {Ok(s) : s \in SeqsUpTo(LookupSongs, MaxSongs)} \cup {Fault}

VideoResults ==
    LET v1 == Candidate(<<"A", " ", "b">>, <<aR>>, NoAlbum, "v1")
        v2 == Candidate(<<"b">>, <<aR>>, NoAlbum, "v2")
    IN  {Ok(<<>>), Ok(<<v1>>), Ok(<<v2, v1>>), Fault}

\* album-search results: albums "B2" and then possibly the album "B1"
AlbumLists ==
    {s \in SeqsUpTo({"B1", "B2"}, MaxAlbums) :
        /\ \A i \in 1..(Len(s) - 1) : s[i] = "B2"
        /\ Len(s) >= 2 => s[Len(s)] = "B1"}

AlbumResults == {Ok(s) : s \in AlbumLists} \cup {Fault}

\* what get_album gives for the two albums: B1 holds the track "a", and B2
\* cannot be fetched or holds the track "ab"
GetAlbums ==
    LET b1 == Ok(<<Candidate(<<"b">>, <<aR>>, Album(alX), "t1"),
                   Candidate(tA, <<aR>>, Album(alX), "t2")>>)
        b2 == Ok(<<Candidate(tAB, <<aR>>, Album(alY), "t3")>>)
    IN  {[b \in {"B1", "B2"} |-> IF b = "B1" THEN b1 ELSE x] : x \in {Fault, b2}}

\* a remote service: what each search and each album fetch gives
Remote(albums, get_album, songs, videos) ==
    [albums |-> albums, get_album |-> get_album, songs |-> songs, videos |-> videos]

MatcherIdle ==
    matcher = [pc |-> "idle", yt |-> <<>>, track_name |-> <<>>, artist_name |-> <<>>,
               album_name |-> <<>>, yt_search_algo |-> 0, result |-> Raise("none")]

\* lookup_song is called and ends
LookupCall ==
    /\ matcher.pc = "call"
    /\ matcher' = [matcher EXCEPT
            !.pc = "done",
            !.result = lookup_song(matcher.yt, matcher.track_name, matcher.artist_name,
                                   matcher.album_name, matcher.yt_search_algo)]
    /\ UNCHANGED <<re_sub, engine>>

\* ------------------------------------------------------ the remote library

None == << "<None>" >>

Digits == <<"1", "2", "3", "4", "5", "6", "7", "8", "9">>

Playlist(title, playlistId, tracks) ==
    [title |-> title, playlistId |-> playlistId, tracks |-> tracks]

\* the id the remote gives the next playlist it creates
NewId(lib) == <<"P", Digits[Len(lib) + 1]>>

\* yt.create_playlist(title=...) succeeding
Created(lib, title) == Append(lib, Playlist(title, NewId(lib), {}))

\* yt.add_playlist_items(playlistId=..., videoIds=[v]) succeeding
Added(lib, playlistId, v) ==
    [i \in 1..Len(lib) |->
        IF lib[i].playlistId = playlistId
        THEN [lib[i] EXCEPT !.tracks = @ \cup {v}]
        ELSE lib[i]]

\* get_playlist_id_by_name that looks at the first playlist only
get_playlist_id_first_only(playlists, title) ==
    IF playlists # <<>> /\ playlists[1].title = title
    THEN playlists[1].playlistId
    ELSE None

\* a lookup served from a listing that misses the playlists created since
\* the command started
get_playlist_id_stale(playlists, title) ==
    LET hits == {i \in 1..Len(library0) : library0[i].title = title}
    IN  IF hits = {} THEN None ELSE library0[Min(hits)].playlistId

\* get_playlist_id_by_name, given what get_library_playlists returned
get_playlist_id_by_name(playlists, title) ==
    LET hits == {i \in 1..Len(playlists) : playlists[i].title = title}
    IN  IF hits = {} THEN None ELSE playlists[Min(hits)].playlistId

\* ------------------------------------------------------- the retry loops

\* range(10)
MaxAttempts == 10
\* exception_sleep = 5
InitialSleep == 5
\* time.sleep(1) after a playlist was created
SettleSleep == 1

BackoffLinear(sleep) == sleep + InitialSleep

\* exception_sleep *= 2
Backoff(sleep) == sleep * 2

\* _create: "if attempt < 9", no sleep after the last attempt
CreateSleeps(a) == a < 9

\* copier: the except clause sleeps after every failed attempt
WriteSleeps(a) == TRUE

NoOp == [kind |-> "none", tries |-> 0, outcome |-> "none"]

\* ----------------------------------------------------------------- copier

SongInfo(title, artist, album) == [title |-> title, artist |-> artist, album |-> album]
NoSong == SongInfo(<<>>, <<>>, <<>>)

NoSummary == [shown |-> FALSE, added |-> 0, duplicates |-> 0, errors |-> 0]

\* a summary whose added total counts every resolved track
SummaryCountingRepeats(added_set, duplicates, errors) ==
    [shown |-> TRUE, added |-> Cardinality(added_set) + duplicates,
     duplicates |-> duplicates, errors |-> errors]

\* a summary whose added total counts what a run was allowed to write
SummaryOfWrites(added_set, duplicates, errors) ==
    [shown |-> TRUE, added |-> IF call.dry_run THEN 0 ELSE Cardinality(added_set),
     duplicates |-> duplicates, errors |-> errors]

\* "Added {len(tracks_added_set)} tracks, encountered {duplicate_count}
\*  duplicates, {error_count} errors"
Summary(added_set, duplicates, errors) ==
    [shown |-> TRUE, added |-> Cardinality(added_set),
     duplicates |-> duplicates, errors |-> errors]

IsDuplicateAfterAdd(videoId, added_set) == videoId \in added_set \cup {videoId}

\* dst_track["videoId"] in tracks_added_set
IsDuplicate(videoId, added_set) == videoId \in added_set

AddReplacing(added_set, videoId) == {videoId}

\* tracks_added_set.add(dst_track["videoId"])
Add(added_set, videoId) == added_set \cup {videoId}

\* what one entry of the source playlist's "tracks" can be: a track with all
\* its fields, an entry whose "track" is None, an entry lacking a field
SourceEntries == {"track", "null", "broken"}

\* the remote services the lookups of copier reach: no album hit and no
\* song, one song, a failing song search; or the album B1 with its track
CopierRemotes ==
    LET q == FormatQuery(tA, aR)
        none == [x \in {FormatQuery(al, aR) : al \in AlbumNames} |-> Ok(<<>>)]
        b1 == [x \in {FormatQuery(al, aR) : al \in AlbumNames} |-> Ok(<<"B1">>)]
        g == CHOOSE x \in GetAlbums : x["B2"].raises
        s1 == Candidate(tA, <<aR>>, Album(alX), "s1")
    IN  {Remote(none, g, [x \in {q} |-> r], [x \in {q} |-> Ok(<<>>)]) :
            r \in {Ok(<<>>), Ok(<<s1>>), Fault}}
        \cup {Remote(b1, g, [x \in {q} |-> Ok(<<>>)], [x \in {q} |-> Ok(<<>>)])}

\* --------------------------------------------------------------- commands

LikedSongs == <<"L", "i", "k", "e", "d", " ", "S", "o", "n", "g", "s">>
UnnamedPrefix == <<"U", "n", "n", "a", "m", "e", "d", " ", "S", "p", "o", "t", "i", "f", "y",
                   " ", "P", "l", "a", "y", "l", "i", "s", "t", " ">>
SpotifyPrefix == <<"S", "p", "o", "t", "i", "f", "y", " ", "P", "l", "a", "y", "l", "i", "s",
                   "t", " ">>

\* the names a playlist of the export file can have
SourceNames == {<<>>, <<"A">>, LikedSongs}

\* the id of the i-th playlist of the export file
SourceId(i) == <<"s", Digits[i]>>

Call(name, dry_run, track_sleep, algo, src, dst, title) ==
    [name |-> name, dry_run |-> dry_run, track_sleep |-> track_sleep,
     yt_search_algo |-> algo, spotify_playlist_id |-> src,
     ytmusic_playlist_id |-> dst, pl_name |-> title]

NoCall == Call("none", FALSE, 0, 0, <<>>, <<>>, <<>>)

\* the destinations copy_playlist is given: "+" and a name, or an id
Destinations == {<<"+">>, <<"+", "A">>, <<"+", "B">>, <<"P", "1">>, <<"P", "9">>}

Calls ==
    {Call("copy_all_playlists", d, ts, 0, <<>>, <<>>, <<>>) :
        d \in BOOLEAN, ts \in {0, 1}}
    \cup {Call("copy_playlist", d, ts, al, SourceId(1), dst, <<>>) :
        d \in BOOLEAN, ts \in {0, 1}, al \in {0, 1}, dst \in Destinations}
    \cup {Call("copier", d, ts, al, None, <<>>, <<>>) :
        d \in BOOLEAN, ts \in {0, 1}, al \in {0, 1, 2}}
    \cup {Call("create_playlist", FALSE, 0, 0, <<>>, <<>>, n) :
        n \in {<<"A">>, <<" ">>}}

\* the remote libraries a command can find
Libraries ==
    { <<>>,
      <<Playlist(<<"A">>, <<"P", "1">>, {})>>,
      <<Playlist(<<"B">>, <<"P", "1">>, {}), Playlist(<<"A">>, <<"P", "2">>, {})>> }

EngineIdle(lib) ==
    /\ pc = "idle"
    /\ call = NoCall
    /\ library = lib
    /\ library0 = lib
    /\ liked = {}
    /\ pl_index = 0
    /\ pl_name = <<>>
    /\ dst_pl_id = None
    /\ entries_read = 0
    /\ entry = "none"
    /\ src_track = NoSong
    /\ dst_track = NoTrack
    /\ tracks_added_set = {}
    /\ duplicate_count = 0
    /\ error_count = 0
    /\ attempt = 0
    /\ exception_sleep = 0
    /\ raised = "none"
    /\ message = <<>>
    /\ op = NoOp
    /\ slept = <<>>
    /\ pause = 0
    /\ resolved = <<>>
    /\ printed = NoSummary
    /\ invocation = 0
    /\ skipped = 0

copierVars == <<entries_read, src_track, dst_track, tracks_added_set, duplicate_count,
                error_count, resolved, invocation>>
retryVars == <<attempt, exception_sleep, op, slept>>
remoteVars == <<library, library0, liked>>

\* the command ends with an exception nobody catches
Raises(e) ==
    /\ pc' = "raised"
    /\ raised' = e
    /\ message' = <<>>

\* str(result) of the dict _create returns after its last attempt
RetriesExhausted(title) ==
    <<"C", "o", "u", "l", "d", " ", "n", "o", "t", " ", "c", "r", "e", "a", "t", "e", " ", "p", "l", "a", "y", "l", "i", "s", "t", " ", "\"">>
      \o title \o <<"\"", " ", "a", "f", "t", "e", "r", " ", "m", "u", "l", "t", "i", "p", "l", "e", " ", "r", "e", "t", "r", "i", "e", "s">>

\* a message that does not name the playlist
CreateFailedAnonymous(title, result) ==
    <<"F", "a", "i", "l", "e", "d", " ", "t", "o", " ", "c", "r", "e", "a", "t", "e", " ", "p", "l", "a", "y", "l", "i", "s", "t", ":", " ">> \o result

\* f"Failed to create playlist (name: {title}): {result}"
CreateFailedMessage(title, result) ==
    <<"F", "a", "i", "l", "e", "d", " ", "t", "o", " ", "c", "r", "e", "a", "t", "e", " ", "p", "l", "a", "y", "l", "i", "s", "t", " ", "(", "n", "a", "m", "e", ":", " ">>
      \o title \o <<")", ":", " ">> \o result

\* _ytmusic_create_playlist raises YTMusicError for the result _create gave
RaisesCreateFailed(title, result) ==
    /\ pc' = "raised"
    /\ raised' = "YTMusicError"
    /\ message' = CreateFailedMessage(title, result)

\* _ytmusic_create_playlist is entered: _create starts its loop
EnterCreate(title) ==
    /\ pc' = "create"
    /\ pl_name' = title
    /\ attempt' = 0
    /\ exception_sleep' = InitialSleep
    /\ op' = [kind |-> "create", tries |-> 0, outcome |-> "running"]
    /\ slept' = <<>>

\* copier is called with this destination
EnterCopier(id) ==
    /\ pc' = "copier_start"
    /\ dst_pl_id' = id

\* a command is started, one of calls
StartOf(calls) ==
    /\ pc = "idle"
    /\ \E c \in calls :
        /\ call' = c
        /\ CASE c.name = "copy_all_playlists" ->
                  /\ pc' = "bulk_loop"
                  /\ UNCHANGED <<pl_name, dst_pl_id, raised, message, retryVars>>
             [] c.name = "copy_playlist" ->
                  /\ pc' = "copy_playlist"
                  /\ UNCHANGED <<pl_name, dst_pl_id, raised, message, retryVars>>
             [] c.name = "copier" ->
                  /\ EnterCopier(None)
                  /\ UNCHANGED <<pl_name, raised, message, retryVars>>
             [] c.name = "create_playlist" ->
                  IF StripBlanks(c.pl_name) = <<>>
                  THEN /\ Raises("ValueError")
                       /\ UNCHANGED <<pl_name, dst_pl_id, retryVars>>
                  ELSE /\ EnterCreate(c.pl_name)
                       /\ UNCHANGED <<dst_pl_id, raised, message>>
    /\ UNCHANGED <<remoteVars, pl_index, copierVars, pause, printed>>
    /\ UNCHANGED <<re_sub, matcher, skipped, entry>>

Start == StartOf(Calls)

\* the commands whose runs are followed to their end: those that call
\* copier or _ytmusic_create_playlist once, with and without dry-run, into a
\* destination that exists, one that has to be created and one that cannot
\* be fetched
FairCalls ==
    {Call("copy_playlist", d, ts, 0, SourceId(1), dst, <<>>) :
        d \in BOOLEAN, ts \in {0, 1}, dst \in {<<"+", "A">>, <<"P", "1">>, <<"P", "9">>}}
    \cup {Call("copier", d, ts, al, None, <<>>, <<>>) :
            d \in BOOLEAN, ts \in {0, 1}, al \in {0, 1, 2}}
    \cup {Call("create_playlist", FALSE, 0, 0, <<>>, <<>>, n) :
            n \in {<<"A">>, <<" ">>}}

StartFair == StartOf(FairCalls)

\* copy_playlist up to the creation of the destination or the call of copier
CopyPlaylistResolve ==
    /\ pc = "copy_playlist"
    /\ LET arg == call.ytmusic_playlist_id
           by_name == arg # <<>> /\ Head(arg) = "+"
           name == IF by_name THEN Tail(arg) ELSE <<>>
           id == IF by_name THEN get_playlist_id_by_name(library, name) ELSE arg
       IN  \/ /\ by_name              \* get_library_playlists raises
              /\ Raises("KeyError")
              /\ UNCHANGED <<pl_name, dst_pl_id, retryVars>>
           \/ /\ id # None
              /\ EnterCopier(id)
              /\ pl_name' = name
              /\ UNCHANGED <<raised, message, retryVars>>
           \/ /\ id = None
              /\ \E found \in SourceNames \cup {None} :
                    LET in_file == IF name = <<>> /\ found # None THEN found ELSE name
                        title == IF in_file = <<>>
                                 THEN SpotifyPrefix \o call.spotify_playlist_id
                                 ELSE in_file
                    IN  EnterCreate(title)
              /\ UNCHANGED <<dst_pl_id, raised, message>>
    /\ UNCHANGED <<call, remoteVars, pl_index, copierVars, pause, printed>>
    /\ UNCHANGED <<re_sub, matcher, skipped, entry>>

\* a destination title taken from the file as it is
BulkTitleVerbatim(name, id) == name

\* the title copy_all_playlists gives the destination of a source playlist
BulkTitle(name, id) == IF name = <<>> THEN UnnamedPrefix \o id ELSE name

\* copy_all_playlists: one turn of the loop over the export file's playlists,
\* up to the creation of the destination or the call of copier
BulkLoop ==
    /\ pc = "bulk_loop"
    /\ \/ /\ pc' = "done"              \* the file holds no further playlist
          /\ UNCHANGED <<pl_index, pl_name, dst_pl_id, raised, message, retryVars,
                         skipped>>
       \/ /\ pl_index < MaxPlaylists
          /\ pl_index' = pl_index + 1
          /\ \E name \in SourceNames :
               IF name = LikedSongs
               THEN /\ pc' = "bulk_loop"
                    /\ skipped' = skipped + 1
                    /\ UNCHANGED <<pl_name, dst_pl_id, raised, message, retryVars>>
               ELSE LET title == BulkTitle(name, SourceId(pl_index + 1))
                        id == get_playlist_id_by_name(library, title)
                    IN  \/ /\ Raises("KeyError")   \* get_library_playlists raises
                           /\ pl_name' = title
                           /\ UNCHANGED <<dst_pl_id, retryVars, skipped>>
                        \/ /\ id # None
                           /\ EnterCopier(id)
                           /\ pl_name' = title
                           /\ UNCHANGED <<raised, message, retryVars, skipped>>
                        \/ /\ id = None
                           /\ EnterCreate(title)
                           /\ UNCHANGED <<dst_pl_id, raised, message, skipped>>
    /\ UNCHANGED <<call, remoteVars, copierVars, pause, printed>>
    /\ UNCHANGED <<re_sub, matcher, entry>>

\* _ytmusic_create_playlist: one attempt of _create and what follows it
CreateAttempt ==
    /\ pc = "create"
    /\ \/ /\ library' = Created(library, pl_name)    \* the id is returned
          /\ op' = [op EXCEPT !.tries = @ + 1, !.outcome = "ok"]
          /\ pause' = SettleSleep
          /\ IF call.name = "create_playlist"
             THEN pc' = "done" /\ UNCHANGED dst_pl_id
             ELSE EnterCopier(NewId(library))
          /\ attempt' = 0
          /\ exception_sleep' = 0
          /\ UNCHANGED <<raised, message, slept>>
       \/ /\ op' = [op EXCEPT !.tries = @ + 1, !.outcome = "refused"]
          /\ RaisesCreateFailed(pl_name, <<"{", "}">>)  \* a response dict is returned
          /\ UNCHANGED <<library, dst_pl_id, attempt, exception_sleep, slept, pause>>
       \/ /\ slept' = IF CreateSleeps(attempt)       \* the remote call raises
                      THEN Append(slept, exception_sleep) ELSE slept
          /\ exception_sleep' = IF CreateSleeps(attempt)
                                THEN Backoff(exception_sleep) ELSE exception_sleep
          /\ IF attempt + 1 < MaxAttempts
             THEN /\ attempt' = attempt + 1
                  /\ op' = [op EXCEPT !.tries = @ + 1]
                  /\ UNCHANGED <<pc, raised, message>>
             ELSE /\ op' = [op EXCEPT !.tries = @ + 1, !.outcome = "exhausted"]
                  /\ RaisesCreateFailed(pl_name, RetriesExhausted(pl_name))
                  /\ UNCHANGED attempt
          /\ UNCHANGED <<library, dst_pl_id, pause>>
    /\ UNCHANGED <<call, library0, liked, pl_index, pl_name, copierVars, printed>>
    /\ UNCHANGED <<re_sub, matcher, skipped, entry>>

\* copier up to its loop: the destination is fetched, the session is created
CopierStart ==
    /\ pc = "copier_start"
    /\ \/ /\ dst_pl_id # None                        \* get_playlist raises
          /\ pc' = "exit"
          /\ UNCHANGED <<copierVars, entry, op, slept, printed>>
       \/ /\ dst_pl_id # None => \E i \in 1..Len(library) : library[i].playlistId = dst_pl_id
          /\ pc' = "iterate"
          /\ tracks_added_set' = {}
          /\ duplicate_count' = 0
          /\ error_count' = 0
          /\ entries_read' = 0
          /\ entry' = "none"
          /\ resolved' = <<>>
          /\ invocation' = invocation + 1
          /\ op' = NoOp
          /\ slept' = <<>>
          /\ printed' = NoSummary
          /\ UNCHANGED <<src_track, dst_track>>
    /\ pause' = 0
    /\ UNCHANGED <<call, remoteVars, pl_index, pl_name, dst_pl_id, attempt,
                   exception_sleep, raised, message>>
    /\ UNCHANGED <<re_sub, matcher, skipped>>

\* the playlist iter_spotify_playlist is asked for: an id of the export file,
\* or None for "Liked Songs", which is what a run of copier alone transfers
src_pl_id ==
    IF call.name = "copy_all_playlists" THEN SourceId(pl_index)
    ELSE call.spotify_playlist_id

\* an iterator whose treatment of a malformed entry depends on the collection
EntryOutcomeByCollection(e, id) ==
    IF e = "track" THEN "yield" ELSE IF id = None THEN "skip" ELSE "raise"

\* iter_spotify_playlist's loop body: an entry whose "track" is None is
\* skipped with a warning, one lacking its album or artist is printed and
\* re-raised, any other is yielded
EntryOutcome(e, id) ==
    CASE e = "null" -> "skip"
      [] e = "broken" -> "raise"
      [] e = "track" -> "yield"

\* copier's for statement asks iter_spotify_playlist for the next track; when
\* there is none the summary is printed and copier returns
Iterate ==
    /\ pc = "iterate"
    /\ \/ /\ entries_read = 0                        \* find_spotify_playlist raises
          /\ call.name # "copy_all_playlists"
          /\ Raises("ValueError")
          /\ UNCHANGED <<entries_read, entry, src_track, printed, tracks_added_set,
                         duplicate_count, error_count, resolved>>
       \/ /\ printed' = Summary(tracks_added_set, duplicate_count, error_count)
          /\ pc' = IF call.name = "copy_all_playlists" THEN "bulk_loop" ELSE "done"
          /\ UNCHANGED <<entries_read, entry, src_track, raised, message,
                         tracks_added_set, duplicate_count, error_count, resolved>>
       \/ /\ entries_read < MaxTracks
          /\ entries_read' = entries_read + 1
          /\ \E e \in SourceEntries :
               /\ entry' = e
               /\ CASE EntryOutcome(e, src_pl_id) = "skip" ->
                         UNCHANGED <<pc, src_track, raised, message, printed>>
                    [] EntryOutcome(e, src_pl_id) = "raise" ->
                         /\ Raises("KeyError")
                         /\ UNCHANGED <<src_track, printed>>
                    [] EntryOutcome(e, src_pl_id) = "yield" ->
                         /\ src_track' = SongInfo(tA, aR, alX)
                         /\ pc' = "lookup"
                         /\ UNCHANGED <<raised, message, printed>>
          /\ UNCHANGED <<tracks_added_set, duplicate_count, error_count, resolved>>
    /\ dst_track' = NoTrack
    /\ op' = NoOp
    /\ slept' = <<>>
    /\ pause' = 0
    /\ UNCHANGED <<call, remoteVars, pl_index, pl_name, dst_pl_id, invocation,
                   attempt, exception_sleep>>
    /\ UNCHANGED <<re_sub, matcher, skipped>>

\* a pacing that follows written tracks only
PacingWhenWritten == IF call.dry_run THEN 0 ELSE call.track_sleep

\* the pacing between tracks: "if track_sleep: time.sleep(track_sleep)"
Pacing == call.track_sleep

\* a loop body that writes fresh ids only
SkipsWriteOfRepeats(dry_run, videoId, added_set) == dry_run \/ videoId \in added_set

\* a loop body that writes whatever dry_run is
SkipsWriteNever(dry_run, videoId, added_set) == FALSE

\* "if not dry_run:" is all that decides whether the track is written
SkipsWrite(dry_run, videoId, added_set) == dry_run

\* a lookup whose exception is not caught
LookupFailedAborts ==
    /\ Raises("ValueError")
    /\ pause' = 0
    /\ UNCHANGED <<error_count, dst_track, tracks_added_set, duplicate_count,
                   resolved, attempt, exception_sleep, op>>

\* an except clause that goes on with the next track and counts nothing
LookupFailedUncounted ==
    /\ pc' = "iterate"
    /\ pause' = 0
    /\ UNCHANGED <<error_count, dst_track, tracks_added_set, duplicate_count,
                   resolved, attempt, exception_sleep, op, raised, message>>

\* the except clause around lookup_song: the error is counted and the loop
\* goes on with the next track
LookupFailed ==
    /\ error_count' = error_count + 1
    /\ pc' = "iterate"
    /\ pause' = 0
    /\ UNCHANGED <<dst_track, tracks_added_set, duplicate_count, resolved, attempt,
                   exception_sleep, op, raised, message>>

\* copier's loop body from lookup_song to the start of the write
Lookup ==
    /\ pc = "lookup"
    /\ \E yt \in CopierRemotes :
         LET found == lookup_song(yt, src_track.title, src_track.artist,
                                  src_track.album, call.yt_search_algo)
             videoId == found.track.videoId
         IN  IF found.kind = "raise"
             THEN LookupFailed
             ELSE /\ dst_track' = found.track
                  /\ UNCHANGED <<raised, message>>
                  /\ duplicate_count' = IF IsDuplicate(videoId, tracks_added_set)
                                        THEN duplicate_count + 1 ELSE duplicate_count
                  /\ tracks_added_set' = Add(tracks_added_set, videoId)
                  /\ resolved' = Append(resolved, videoId)
                  /\ UNCHANGED error_count
                  /\ IF SkipsWrite(call.dry_run, videoId, tracks_added_set)
                     THEN /\ pc' = "iterate"
                          /\ pause' = Pacing
                          /\ UNCHANGED <<attempt, exception_sleep, op>>
                     ELSE /\ pc' = "write"
                          /\ attempt' = 0
                          /\ exception_sleep' = InitialSleep
                          /\ op' = [kind |-> "write", tries |-> 0, outcome |-> "running"]
                          /\ pause' = 0
    /\ UNCHANGED <<call, remoteVars, pl_index, pl_name, dst_pl_id, entries_read,
                   src_track, invocation, slept, printed>>
    /\ UNCHANGED <<re_sub, matcher, skipped, entry>>

\* a retry loop that raises when its attempts are used up
WriteGivenUpRaises ==
    /\ Raises("YTMusicError")
    /\ pause' = 0

\* a retry loop that ends the process when its attempts are used up
WriteGivenUpExits ==
    /\ pc' = "exit"
    /\ pause' = 0
    /\ UNCHANGED <<raised, message>>

\* the for loop of the write ends without a break: nothing follows it but the
\* pacing, and the loop over the tracks goes on
WriteGivenUp ==
    /\ pc' = "iterate"
    /\ pause' = Pacing
    /\ UNCHANGED <<raised, message>>

\* copier's retry loop: one attempt of the append or the like, and, when the
\* loop ends with it, the pacing
WriteAttempt ==
    /\ pc = "write"
    /\ \/ /\ IF dst_pl_id # None                     \* the remote call returns
             THEN /\ library' = Added(library, dst_pl_id, dst_track.videoId)
                  /\ UNCHANGED liked
             ELSE /\ liked' = liked \cup {dst_track.videoId}
                  /\ UNCHANGED library
          /\ op' = [op EXCEPT !.tries = @ + 1, !.outcome = "ok"]
          /\ pc' = "iterate"
          /\ pause' = Pacing
          /\ attempt' = 0
          /\ exception_sleep' = 0
          /\ UNCHANGED <<slept, raised, message>>
       \/ /\ slept' = IF WriteSleeps(attempt)        \* the remote call raises
                      THEN Append(slept, exception_sleep) ELSE slept
          /\ IF attempt + 1 < MaxAttempts
             THEN /\ attempt' = attempt + 1
                  /\ exception_sleep' = IF WriteSleeps(attempt)
                                        THEN Backoff(exception_sleep)
                                        ELSE exception_sleep
                  /\ op' = [op EXCEPT !.tries = @ + 1]
                  /\ pause' = 0
                  /\ UNCHANGED <<pc, raised, message>>
             ELSE /\ op' = [op EXCEPT !.tries = @ + 1, !.outcome = "exhausted"]
                  /\ attempt' = 0
                  /\ exception_sleep' = 0
                  /\ WriteGivenUp
          /\ UNCHANGED <<library, liked>>
    /\ UNCHANGED <<call, library0, pl_index, pl_name, dst_pl_id, copierVars, printed>>
    /\ UNCHANGED <<re_sub, matcher, skipped, entry>>

\* --------------------------------------------------------- specifications

InitStrip ==
    /\ re_sub \in {[pc |-> "input", title |-> t, once |-> <<>>, twice |-> <<>>] :
                      t \in SeqsUpTo(TitleChars, MaxLen)}
    /\ MatcherIdle
    /\ EngineIdle(<<>>)

NextStrip == StripOnce \/ StripTwice

SpecStrip == InitStrip /\ [][NextStrip]_vars

\* the arguments of the call and the remote service it reaches; the video
\* search is issued by case 2 only
InitLookup ==
    /\ ReSubIdle
    /\ EngineIdle(<<>>)
    /\ \E t \in TrackNames, a \in ArtistNames, algo \in SearchAlgos :
         \E albums \in [{FormatQuery(al, a) : al \in AlbumNames} -> AlbumResults],
            get_album \in GetAlbums,
            songs \in [{FormatQuery(t, a)} -> SongResults],
            videos \in [{FormatQuery(t, a)} ->
                           IF algo = 2 THEN VideoResults ELSE {Ok(<<>>)}] :
            matcher = [pc |-> "call", yt |-> Remote(albums, get_album, songs, videos),
                       track_name |-> t, artist_name |-> a, album_name |-> alX,
                       yt_search_algo |-> algo, result |-> Raise("none")]

NextLookup == LookupCall

SpecLookup == InitLookup /\ [][NextLookup]_vars

Init ==
    /\ ReSubIdle
    /\ MatcherIdle
    /\ \E lib \in Libraries : EngineIdle(lib)

Next ==
    \/ Start
    \/ CopyPlaylistResolve
    \/ BulkLoop
    \/ CreateAttempt
    \/ CopierStart
    \/ Iterate
    \/ Lookup
    \/ WriteAttempt

Spec == Init /\ [][Next]_vars

NextFair ==
    \/ StartFair
    \/ CopyPlaylistResolve
    \/ CreateAttempt
    \/ CopierStart
    \/ Iterate
    \/ Lookup
    \/ WriteAttempt

\* the commands run in one thread and every remote call returns or raises: a
\* command that can take a step takes it
SpecFair == Init /\ [][NextFair]_vars /\ WF_vars(NextFair)

\* ------------------------------------------------------------- properties

\* what the finished call of lookup_song was given
mYt == matcher.yt
mSongs == Search(mYt, FormatQuery(matcher.track_name, matcher.artist_name), "songs")
mAlbums(al) == Search(mYt, FormatQuery(al, matcher.artist_name), "albums")

\* the album search for album al gave results, and none of the first three
\* albums could be fetched with a track titled like the descriptor
NoAlbumHit(al) ==
    /\ ~mAlbums(al).raises
    /\ \A i \in 1..Len(mAlbums(al).value) :
          i <= AlbumLimit =>
            LET got == mYt.get_album[mAlbums(al).value[i]]
            IN  got.raises \/ \A j \in 1..Len(got.value) :
                                 got.value[j].title # matcher.track_name

\* title, primary artist and album of the song all equal the descriptor's
FullMatch(song) ==
    /\ song.title = matcher.track_name
    /\ song.artists # <<>>
    /\ song.artists[1] = matcher.artist_name
    /\ song.album.present
    /\ song.album.name = matcher.album_name

\* every song of the result carries a primary artist and an album
WellFormed(songs) ==
    \A i \in 1..Len(songs) : songs[i].artists # <<>> /\ songs[i].album.present

StrictDone == matcher.pc = "done" /\ matcher.yt_search_algo = 1
ExactDone == matcher.pc = "done" /\ matcher.yt_search_algo = 0

C2_ExactFirstAnyAlbum ==
    ExactDone =>
        /\ (~mSongs.raises /\ mSongs.value # <<>>)
              => matcher.result = Return(mSongs.value[1])
        /\ \A al \in AlbumNames :
              lookup_song(mYt, matcher.track_name, matcher.artist_name, al, 0)
                 = matcher.result

\* C2 amended: under Exact, when the album-scoped lookup for the descriptor's
\* album yields no track, lookup_song returns the first song-search result
\* (IndexError when there is none), and the outcome is the same for every
\* album field whose album-scoped lookup yields no track either.
C2_ExactFirstAfterAlbums ==
    (ExactDone /\ NoAlbumHit(matcher.album_name) /\ ~mSongs.raises) =>
        /\ matcher.result = IF mSongs.value = <<>> THEN Raise("IndexError")
                            ELSE Return(mSongs.value[1])
        /\ \A al \in AlbumNames :
              NoAlbumHit(al) =>
                 lookup_song(mYt, matcher.track_name, matcher.artist_name, al, 0)
                    = matcher.result

\* Exact returned the first of two different songs while the two album
\* fields led to different album-search results, neither with a hit
C2_Witness ==
    /\ ExactDone /\ ~mSongs.raises
    /\ Len(mSongs.value) = 2 /\ mSongs.value[1] # mSongs.value[2]
    /\ matcher.result = Return(mSongs.value[1])
    /\ NoAlbumHit(alX) /\ NoAlbumHit(alY)
    /\ mAlbums(alX) # mAlbums(alY)
    /\ mAlbums(alY).value # <<>>

\* C3: stripping brackets from an already stripped title changes nothing.
C3_StripIdempotent ==
    re_sub.pc = "twice" => re_sub.twice = re_sub.once

\* a title that lost a bracketed part and kept an unmatched bracket was
\* stripped twice
C3_Witness ==
    /\ re_sub.pc = "twice"
    /\ Len(re_sub.once) < Len(re_sub.title)
    /\ \E i \in 1..Len(re_sub.once) : re_sub.once[i] \in Openers \cup Closers

\* ---- the transfer engine

\* copier is inside its loop over the source tracks
InCopier == pc \in {"iterate", "lookup", "write"}

\* the positions of a sequence of ids whose id stands at an earlier position
Repeats(ids) == {i \in 1..Len(ids) : \E j \in 1..(i - 1) : ids[j] = ids[i]}

\* the destination argument of copy_playlist names a playlist ("+name")
ByName ==
    /\ call.name = "copy_playlist"
    /\ call.ytmusic_playlist_id # <<>>
    /\ Head(call.ytmusic_playlist_id) = "+"
RequestedName == Tail(call.ytmusic_playlist_id)

\* the playlists the library held with the title, when the command started
Titled(title) == {i \in 1..Len(library0) : library0[i].title = title}

\* C4: within one copier invocation the duplicate counter equals the number of
\* resolutions whose id was already in the de-duplication set (one increment
\* per repeat, none otherwise), and the set never holds more ids than the
\* distinct ids resolved so far.
C4_DuplicatesCountRepeats ==
    InCopier =>
        /\ duplicate_count = Cardinality(Repeats(resolved))
        /\ Cardinality(tracks_added_set) <= Cardinality(Range(resolved))

\* C4's case: the same id was resolved twice, counted once as a duplicate
C4_Witness ==
    /\ InCopier
    /\ Len(resolved) = 2
    /\ resolved[1] = resolved[2]
    /\ duplicate_count = 1
    /\ Cardinality(tracks_added_set) = 1

\* C5: a retried write (playlist creation, track append or like) that succeeds
\* on its 10th attempt has slept exactly 5, 10, 20, 40, 80, 160, 320, 640 and
\* 1280 before it, ends in success, and the retry loop sleeps no more after it.
C5_TenthAttemptBackoff ==
    (op.outcome = "ok" /\ op.tries = 10) =>
        /\ op.kind \in {"create", "write"}
        /\ slept = <<5, 10, 20, 40, 80, 160, 320, 640, 1280>>
        /\ raised = "none"
        /\ pc # "raised"

\* C5's case: the append of a track succeeded on the 10th attempt
C5_Witness ==
    /\ op = [kind |-> "write", tries |-> 10, outcome |-> "ok"]
    /\ Len(slept) = 9
    /\ \E i \in 1..Len(library) : library[i].tracks # {}

\* C6 as stated: a retried write that fails on all 10 attempts raises after
\* the 10th attempt, with no delay slept after that 10th failure.
C6_ExhaustedRaisesNoTrailingSleep ==
    op.outcome = "exhausted" =>
        /\ pc = "raised"
        /\ raised = "YTMusicError"
        /\ slept = <<5, 10, 20, 40, 80, 160, 320, 640, 1280>>

\* C6's failing case: the append failed 10 times, a 10th delay of 2560 was
\* slept and copier went on without raising
C6_Witness ==
    /\ op = [kind |-> "write", tries |-> 10, outcome |-> "exhausted"]
    /\ slept = <<5, 10, 20, 40, 80, 160, 320, 640, 1280, 2560>>
    /\ pc = "iterate"
    /\ raised = "none"

\* C7 as stated: a bulk transfer with dry-run enabled leaves the remote state
\* as it found it: no playlist created, no track appended or liked.
C7_DryRunBulkLeavesRemote ==
    (call.name = "copy_all_playlists" /\ call.dry_run) =>
        /\ library = library0
        /\ liked = {}

\* C7's failing case: a dry-run bulk transfer has created a playlist
C7_Witness ==
    /\ call.name = "copy_all_playlists"
    /\ call.dry_run
    /\ Len(library) = Len(library0) + 1
    /\ pc = "copier_start"

C9_LookupFailureCounted ==
    [][(pc = "lookup" /\ resolved' = resolved) =>
          /\ error_count' = error_count + 1
          /\ tracks_added_set' = tracks_added_set
          /\ duplicate_count' = duplicate_count
          /\ library' = library
          /\ liked' = liked
          /\ op' = NoOp
          /\ pc' = "iterate"
          /\ raised' = "none"]_vars

\* C9's case: the first track's lookup failed and the second track is being
\* looked up
C9_Witness ==
    /\ pc = "lookup"
    /\ entries_read = 2
    /\ error_count = 1
    /\ resolved = <<>>
    /\ tracks_added_set = {}

\* C10: the de-duplication set is empty when copier's loop starts, loses no id
\* while the loop runs, and holds only ids resolved by this invocation, none
\* carried over from an earlier invocation.
C10_SetGrowsPerInvocation ==
    /\ [][(pc = "copier_start" /\ pc' = "iterate") => tracks_added_set' = {}]_vars
    /\ [][(InCopier /\ InCopier') => tracks_added_set \subseteq tracks_added_set']_vars
    /\ [](InCopier => tracks_added_set = Range(resolved))

\* C10's case: the second playlist of a bulk run holds an id in its set, and
\* not the id that the first playlist's invocation inserted and appended
C10_Witness ==
    /\ invocation = 2
    /\ InCopier
    /\ tracks_added_set = {"t2"}
    /\ \E i \in 1..Len(library) : "s1" \in library[i].tracks

\* C11: when all 10 attempts of a playlist creation fail,
\* _ytmusic_create_playlist raises YTMusicError with a message that carries
\* the attempted title, nothing is created and no id reaches the caller, and
\* the command takes no further step: no transfer is started for the playlist.
C11_CreationExhaustedIsFatal ==
    /\ [](  (op.kind = "create" /\ op.outcome = "exhausted") =>
              /\ op.tries = 10
              /\ pc = "raised"
              /\ raised = "YTMusicError"
              /\ IsSubstring(<<"(", "n", "a", "m", "e", ":", " ">> \o pl_name \o <<")">>,
                             message)
              /\ IF call.name = "copy_all_playlists"
                 THEN /\ invocation <= pl_index - 1
                      /\ Len(library) <= Len(library0) + pl_index - 1
                 ELSE /\ invocation = 0
                      /\ library = library0
                      /\ dst_pl_id = None )
    /\ [][~(op.kind = "create" /\ op.outcome = "exhausted")]_vars

\* C11's case: copy_playlist could not create its destination in 10 attempts
C11_Witness ==
    /\ call.name = "copy_playlist"
    /\ op = [kind |-> "create", tries |-> 10, outcome |-> "exhausted"]
    /\ pl_name = <<"B">>
    /\ invocation = 0
    /\ pc = "raised"

\* C12 as stated: the added total of the summary is the number of source
\* tracks that were resolved, repeats of an id included.
C12_AddedCountsResolvedTracks ==
    printed.shown => printed.added = Len(resolved)

\* C12 amended: the added total is the number of distinct target ids resolved
\* (the size of the de-duplication set); a repeat of an id counts in the
\* duplicates total only, so added + duplicates is the number of resolved
\* tracks.
C12_AddedCountsDistinctIds ==
    printed.shown =>
        /\ printed.added = Cardinality(Range(resolved))
        /\ printed.duplicates = Cardinality(Repeats(resolved))
        /\ printed.added + printed.duplicates = Len(resolved)

\* C12's case: two tracks resolved to the same id and the summary reports one
\* added and one duplicate
C12_Witness ==
    /\ printed = [shown |-> TRUE, added |-> 1, duplicates |-> 1, errors |-> 0]
    /\ Len(resolved) = 2
    /\ resolved[1] = resolved[2]

\* C13: without dry-run every resolved track enters the retry loop of the
\* remote write, a repeat of an id like a fresh id, and the loop is not left
\* before at least one attempt was made.
C13_RepeatsAreWritten ==
    /\ [][(pc = "lookup" /\ resolved' # resolved /\ ~call.dry_run) =>
             /\ pc' = "write"
             /\ op' = [kind |-> "write", tries |-> 0, outcome |-> "running"]
             /\ attempt' = 0
             /\ exception_sleep' = InitialSleep]_vars
    /\ [][pc = "write" =>
             /\ op'.tries = op.tries + 1
             /\ pc' # "write" => op'.outcome \in {"ok", "exhausted"}]_vars

\* C13's case: the second track resolved to the id of the first and its
\* write has been attempted
C13_Witness ==
    /\ ~call.dry_run
    /\ Len(resolved) = 2
    /\ resolved[1] = resolved[2]
    /\ duplicate_count = 1
    /\ op = [kind |-> "write", tries |-> 1, outcome |-> "ok"]

\* no playlist of the library holds a track
NoTrackAppended == \A i \in 1..Len(library) : library[i].tracks = {}

\* C14: with dry-run copier never appends and never likes; the lookup's effect
\* on the de-duplication set and on the counters is the same function of what
\* was resolved whatever dry_run is; without dry-run a write changes the
\* destination playlist when an id is given and the liked set when none is,
\* never both.
C14_DryRunWritesNothing ==
    /\ [](call.dry_run => (pc # "write" /\ op.kind # "write"
                           /\ liked = {} /\ NoTrackAppended))
    /\ [][pc = "lookup" =>
             IF resolved' = resolved
             THEN /\ error_count' = error_count + 1
                  /\ duplicate_count' = duplicate_count
                  /\ tracks_added_set' = tracks_added_set
             ELSE LET videoId == resolved'[Len(resolved')]
                  IN  /\ resolved' = Append(resolved, videoId)
                      /\ error_count' = error_count
                      /\ duplicate_count' = IF videoId \in tracks_added_set
                                            THEN duplicate_count + 1
                                            ELSE duplicate_count
                      /\ tracks_added_set' = tracks_added_set \cup {videoId}]_vars
    /\ [][pc = "write" =>
             IF dst_pl_id # None
             THEN /\ liked' = liked
                  /\ library' \in {library, Added(library, dst_pl_id, dst_track.videoId)}
             ELSE /\ library' = library
                  /\ liked' \in {liked, liked \cup {dst_track.videoId}}]_vars

\* C14's case: a dry run of copier saw two tracks resolve to the same id,
\* counted one duplicate, and liked nothing
C14_Witness ==
    /\ call.name = "copier"
    /\ call.dry_run
    /\ printed = [shown |-> TRUE, added |-> 1, duplicates |-> 1, errors |-> 0]
    /\ liked = {}

\* the command was ended by an exception raised inside copier's loop: copier
\* has been entered and has not printed its summary
RaisedInCopier == pc = "raised" /\ invocation >= 1 /\ ~printed.shown

\* C15 as stated: a bulk transfer is never ended by a single bad track: no
\* exception leaves copier's loop.
C15_BulkSurvivesBadTracks ==
    call.name = "copy_all_playlists" => ~RaisedInCopier

\* C15's failing case: the first entry of the first playlist lacks its album
\* or artist, the KeyError is re-raised and ends the bulk transfer with the
\* rest of the file unread
C15_Witness ==
    /\ call.name = "copy_all_playlists"
    /\ RaisedInCopier
    /\ raised = "KeyError"
    /\ pl_index = 1
    /\ entries_read = 1
    /\ resolved = <<>>

\* the bulk command is running
Bulk == call.name = "copy_all_playlists"

\* the source playlists of the bulk run whose turn is over or under way,
\* counted by what became of them
TurnsBegun == invocation + skipped + (IF pc \in {"create", "copier_start"} THEN 1 ELSE 0)

\* C16 as stated: the bulk run takes the source playlists one after the other,
\* passes over "Liked Songs", runs one transfer for every other playlist, into
\* the destination that bears the source playlist's name, and has finished a
\* transfer before it looks up the next destination.
C16_BulkSameNamedDestinations ==
    Bulk =>
        /\ (pc \in {"bulk_loop", "done", "create", "copier_start"} \/ InCopier)
              => TurnsBegun = pl_index
        /\ (pc = "bulk_loop" /\ invocation >= 1) => printed.shown
        /\ (pc = "copier_start" \/ InCopier) =>
              /\ pl_name \in SourceNames \ {LikedSongs}
              /\ get_playlist_id_by_name(library, pl_name) = dst_pl_id

\* C16 amended: the same, with the destination bearing the source playlist's
\* name when that name is not empty and "Unnamed Spotify Playlist <id>" when
\* it is; an exception ends the run with the remaining playlists untouched.
C16_BulkNamedDestinations ==
    /\ [](Bulk =>
            /\ (pc \in {"bulk_loop", "done", "create", "copier_start"} \/ InCopier)
                  => TurnsBegun = pl_index
            /\ pc \in {"raised", "exit"} => TurnsBegun \in {pl_index - 1, pl_index}
            /\ (pc = "bulk_loop" /\ invocation >= 1) => printed.shown
            /\ (pc = "copier_start" \/ InCopier) =>
                  /\ pl_name \in (SourceNames \ {LikedSongs, <<>>})
                                    \cup {UnnamedPrefix \o SourceId(pl_index)}
                  /\ get_playlist_id_by_name(library, pl_name) = dst_pl_id)
    /\ [][Bulk => /\ pl_index' \in {pl_index, pl_index + 1}
                  /\ pl_index' # pl_index => pc = "bulk_loop"
                  /\ skipped' # skipped =>
                        (invocation' = invocation /\ library' = library
                           /\ liked' = liked /\ pc' = "bulk_loop")]_vars

\* C16's case: the bulk run passed over one playlist, transferred an unnamed
\* one into a playlist created for it, and ended
C16_Witness ==
    /\ Bulk
    /\ pc = "done"
    /\ pl_index = 2
    /\ skipped = 1
    /\ invocation = 1
    /\ pl_name = UnnamedPrefix \o SourceId(2)
    /\ printed.shown
    /\ library[Len(library)].title = pl_name

\* ---- the Fuzzy strategy and the album-scoped lookup

FuzzyDone == matcher.pc = "done" /\ matcher.yt_search_algo = 2

\* the acceptance rule of the Fuzzy strategy as the claims word it: the
\* stripped title equals, is contained in or contains the descriptor title,
\* and the primary artist equals or contains the descriptor artist
FuzzyAccepts(song) ==
    LET stripped == WithoutBrackets(song.title)
    IN  /\ \/ stripped = matcher.track_name
           \/ IsSubstring(stripped, matcher.track_name)
           \/ IsSubstring(matcher.track_name, stripped)
        /\ song.artists # <<>>
        /\ \/ song.artists[1] = matcher.artist_name
           \/ IsSubstring(matcher.artist_name, song.artists[1])

FuzzyHits == {i \in 1..Len(mSongs.value) : FuzzyAccepts(mSongs.value[i])}

\* the same remote service with a video search that always raises
WithoutVideoSearch(yt) ==
    [yt EXCEPT !["videos"] = [q \in DOMAIN yt["videos"] |-> Fault]]

\* C17 as stated: under Fuzzy with no album-scoped hit, the first song-search
\* result that passes the acceptance rule is returned, whatever its album and
\* whatever the descriptor's album, and without a video search.
C17_FuzzyFirstAccepted ==
    (FuzzyDone /\ NoAlbumHit(matcher.album_name) /\ ~mSongs.raises /\ FuzzyHits # {}) =>
        /\ matcher.result = Return(mSongs.value[Min(FuzzyHits)])
        /\ \A al \in AlbumNames :
              NoAlbumHit(al) =>
                 lookup_song(mYt, matcher.track_name, matcher.artist_name, al, 2)
                    = matcher.result
        /\ lookup_song(WithoutVideoSearch(mYt), matcher.track_name,
                       matcher.artist_name, matcher.album_name, 2) = matcher.result

\* C17's failing case: the only song result passes the acceptance rule but
\* carries no album, and lookup_song raises TypeError
C17_Witness ==
    /\ FuzzyDone /\ NoAlbumHit(matcher.album_name) /\ ~mSongs.raises
    /\ Len(mSongs.value) = 1
    /\ FuzzyHits = {1}
    /\ ~mSongs.value[1].album.present
    /\ matcher.result = Raise("TypeError")

\* what holds of C17: when every song result carries an album and a primary
\* artist, the first accepted result is returned, whatever the albums, and
\* without a video search
C17_FuzzyFirstAcceptedWellFormed ==
    (FuzzyDone /\ NoAlbumHit(matcher.album_name) /\ ~mSongs.raises
        /\ WellFormed(mSongs.value) /\ FuzzyHits # {}) =>
        /\ matcher.result = Return(mSongs.value[Min(FuzzyHits)])
        /\ \A al \in AlbumNames :
              NoAlbumHit(al) =>
                 lookup_song(mYt, matcher.track_name, matcher.artist_name, al, 2)
                    = matcher.result
        /\ lookup_song(WithoutVideoSearch(mYt), matcher.track_name,
                       matcher.artist_name, matcher.album_name, 2) = matcher.result

mVideos == Search(mYt, FormatQuery(matcher.track_name, matcher.artist_name), "videos")

\* the first raw song result is a poor match, or there is none
PoorFirstSong ==
    \/ mSongs.value = <<>>
    \/ ~IsSubstring(Lower(matcher.track_name), Lower(mSongs.value[1].title))
    \/ mSongs.value[1].artists = <<>>
    \/ mSongs.value[1].artists[1] # matcher.artist_name

\* the videos whose lower-cased title contains the lower-cased descriptor title
VideoHits ==
    {i \in 1..Len(mVideos.value) :
        IsSubstring(Lower(matcher.track_name), Lower(mVideos.value[i].title))}

\* the outcome the claim gives the fallback
FuzzyFallbackOutcome ==
    IF PoorFirstSong
    THEN IF mVideos.raises THEN Raise("RemoteError")
         ELSE IF VideoHits = {} THEN Raise("ValueError")
         ELSE Return(mVideos.value[Min(VideoHits)])
    ELSE Return(mSongs.value[1])

\* C18 as stated: under Fuzzy, when no song result passes the acceptance rule,
\* a poor first result (or no result at all) leads to the video search and to
\* its first video that contains the descriptor title, ValueError when there
\* is none; a first result that is not poor is returned.
C18_FuzzyFallback ==
    (FuzzyDone /\ NoAlbumHit(matcher.album_name) /\ ~mSongs.raises /\ FuzzyHits = {}) =>
        matcher.result = FuzzyFallbackOutcome

\* C18's failing case: the song search gave nothing, a video would match, and
\* lookup_song raises IndexError without searching videos
C18_Witness ==
    /\ FuzzyDone /\ NoAlbumHit(matcher.album_name) /\ ~mSongs.raises
    /\ mSongs.value = <<>>
    /\ ~mVideos.raises /\ VideoHits # {}
    /\ matcher.result = Raise("IndexError")

\* what holds of C18: when the song search gives results that all carry an
\* album and a primary artist, the fallback is as the claim says
C18_FuzzyFallbackNonEmpty ==
    (FuzzyDone /\ NoAlbumHit(matcher.album_name) /\ ~mSongs.raises /\ FuzzyHits = {}
        /\ mSongs.value # <<>> /\ WellFormed(mSongs.value)) =>
        matcher.result = FuzzyFallbackOutcome

\* the fallback returned a video, and returned the first raw song
C18_FallbackReached ==
    /\ FuzzyDone /\ NoAlbumHit(matcher.album_name) /\ ~mSongs.raises /\ FuzzyHits = {}
    /\ mSongs.value # <<>> /\ WellFormed(mSongs.value)
    /\ PoorFirstSong /\ VideoHits # {} /\ Min(VideoHits) = 2

\* the same remote service with a song search that always raises
WithoutSongSearch(yt) ==
    [yt EXCEPT !["songs"] = [q \in DOMAIN yt["songs"] |-> Fault]]

\* the album-search results lookup_song inspects: the first three at most
Inspected ==
    LET albums == mAlbums(matcher.album_name).value
    IN  SubSeq(albums, 1, IF Len(albums) < 3 THEN Len(albums) ELSE 3)

\* the tracks of the fetched album that bear the descriptor's title
TitledTracks(browseId) ==
    LET got == mYt.get_album[browseId]
    IN  IF got.raises THEN {}
        ELSE {j \in 1..Len(got.value) : got.value[j].title = matcher.track_name}

\* the inspected albums that can be fetched and hold such a track
AlbumHits == {i \in 1..Len(Inspected) : TitledTracks(Inspected[i]) # {}}

\* C19: whatever the strategy, lookup_song returns the first track titled like
\* the descriptor of the first of the (at most 3) inspected albums that holds
\* one, an album that cannot be fetched being passed over, and does so without
\* a song search; only when no inspected album holds one is the song search
\* issued and the strategy applied.
C19_AlbumScopedFirst ==
    (matcher.pc = "done" /\ ~mAlbums(matcher.album_name).raises) =>
        IF AlbumHits # {}
        THEN LET browseId == Inspected[Min(AlbumHits)]
             IN  /\ matcher.result =
                       Return(mYt.get_album[browseId].value[Min(TitledTracks(browseId))])
                 /\ lookup_song(WithoutSongSearch(mYt), matcher.track_name,
                                matcher.artist_name, matcher.album_name,
                                matcher.yt_search_algo) = matcher.result
        ELSE /\ matcher.result =
                   SongSearch(mYt, matcher.track_name, matcher.artist_name,
                              matcher.album_name, matcher.yt_search_algo)
             /\ lookup_song(WithoutSongSearch(mYt), matcher.track_name,
                            matcher.artist_name, matcher.album_name,
                            matcher.yt_search_algo) = Raise("RemoteError")

\* C19's case: two albums could not be fetched, the third holds the track,
\* which is returned although the song search has other results
C19_Witness ==
    /\ matcher.pc = "done"
    /\ ~mAlbums(matcher.album_name).raises
    /\ mAlbums(matcher.album_name).value = <<"B2", "B2", "B1">>
    /\ mYt.get_album["B2"].raises
    /\ ~mSongs.raises /\ mSongs.value # <<>>
    /\ matcher.result.kind = "return"
    /\ matcher.result.track.videoId = "t2"

\* the track sits in the fourth album, which is not inspected: the song
\* search decides
C19_FourthAlbumIgnored ==
    /\ matcher.pc = "done"
    /\ ~mAlbums(matcher.album_name).raises
    /\ Len(mAlbums(matcher.album_name).value) = 4
    /\ TitledTracks(mAlbums(matcher.album_name).value[4]) # {}
    /\ AlbumHits = {}
    /\ matcher.result.kind = "return"

\* ---- exhausted track writes

\* C20: a track write that fails on every attempt is absorbed: the step that
\* ends the retry loop raises nothing, leaves the error counter, the
\* de-duplication set (which holds the id) and the remote state as they are
\* and returns to the loop over the tracks; the id counts in the added total
\* of the summary; of the two retried writes only the creation ends the
\* command when its attempts are used up.
C20_WriteExhaustionAbsorbed ==
    /\ [][(pc = "write" /\ op'.outcome = "exhausted") =>
             /\ pc' = "iterate"
             /\ raised' = "none"
             /\ error_count' = error_count
             /\ duplicate_count' = duplicate_count
             /\ tracks_added_set' = tracks_added_set
             /\ dst_track.videoId \in tracks_added_set'
             /\ library' = library
             /\ liked' = liked]_vars
    /\ [][(pc = "iterate" /\ op.kind = "write" /\ op.outcome = "exhausted") =>
             /\ pc' \in {"iterate", "lookup", "done", "bulk_loop"} \/ raised' = "KeyError"
             /\ printed'.shown =>
                   /\ dst_track.videoId \in tracks_added_set
                   /\ printed'.added = Cardinality(tracks_added_set)
                   /\ printed'.errors = error_count]_vars
    /\ []((op.outcome = "exhausted" /\ pc = "raised") => op.kind = "create")

\* C20's case: the only track of a run of copier resolved, its like failed on
\* every attempt, and the summary reports one track added and no error
C20_Witness ==
    /\ call.name = "copier"
    /\ ~call.dry_run
    /\ pc = "done"
    /\ printed = [shown |-> TRUE, added |-> 1, duplicates |-> 0, errors |-> 0]
    /\ liked = {}
    /\ Len(resolved) = 1

\* ---- the order of copier's steps

\* C21: copier takes the source tracks one at a time, in the order of the
\* source: the next entry is fetched only between tracks, one entry per
\* fetch, when no write of the track before it is still running; the lookup,
\* the update of the de-duplication set, the write attempts and their delays
\* all happen while that one track is current; and the pacing delay is slept
\* once, by the step that ends a resolved track, and by no other step.
C21_OneTrackAtATime ==
    /\ [][(InCopier /\ entries_read' # entries_read) =>
             /\ pc = "iterate"
             /\ entries_read' = entries_read + 1
             /\ tracks_added_set' = tracks_added_set
             /\ library' = library
             /\ liked' = liked
             /\ slept' = <<>>]_vars
    /\ [][(pc \in {"lookup", "write"}) =>
             /\ entries_read' = entries_read
             /\ src_track' = src_track
             /\ Len(resolved') \in {Len(resolved), Len(resolved) + 1}]_vars
    /\ [][(pc # "lookup" /\ InCopier) =>
             (tracks_added_set' = tracks_added_set /\ resolved' = resolved)]_vars
    /\ [][(pc # "write" /\ InCopier) =>
             (library' = library /\ liked' = liked /\ slept' = <<>>)]_vars
    /\ [](pc = "iterate" => op.outcome # "running")
    /\ [](pc = "write" => (Len(resolved) >= 1
                           /\ dst_track.videoId = resolved[Len(resolved)]))
    /\ [][(pc \in {"lookup", "write"}) =>
             pause' = IF pc' = "iterate" /\ Len(resolved') >= 1
                         /\ (pc = "lookup" => resolved' # resolved)
                      THEN call.track_sleep ELSE 0]_vars
    /\ [][pc = "iterate" => pause' = 0]_vars

\* C21's case: the second track was resolved in a dry run, which wrote
\* nothing, and the pacing delay was slept after it
C21_Witness ==
    /\ pc = "iterate"
    /\ call.dry_run
    /\ call.track_sleep = 1
    /\ entries_read = 2
    /\ Len(resolved) = 2
    /\ pause = 1

\* the pacing follows a track whose write needed three attempts
C21_PacedAfterRetries ==
    /\ pc = "iterate"
    /\ entries_read = 2
    /\ op = [kind |-> "write", tries |-> 3, outcome |-> "ok"]
    /\ slept = <<5, 10>>
    /\ pause = 1

\* ---- what the added total counts

\* the ids the remote service holds after the writes of the run
WrittenIds == liked \cup UNION {library[i].tracks : i \in 1..Len(library)}

\* C22: the added total of copier's summary is the number of distinct target
\* ids put into the de-duplication set during the run, which are the distinct
\* ids the tracks resolved to: it is the same with and without dry-run, an id
\* resolved several times counts once, and an id counts whether or not its
\* remote write succeeded (the ids written are among those counted).
C22_AddedIsSetSize ==
    printed.shown =>
        /\ tracks_added_set = Range(resolved)
        /\ printed.added = Cardinality(tracks_added_set)
        /\ printed.added <= Len(resolved)
        /\ invocation = 1 => (WrittenIds \subseteq tracks_added_set
                              /\ Cardinality(WrittenIds) <= printed.added)

\* C22's case: without dry-run two tracks resolved to two ids, the like of
\* the first succeeded and the like of the second failed on every attempt;
\* two tracks are reported
C22_Witness ==
    /\ printed = [shown |-> TRUE, added |-> 2, duplicates |-> 0, errors |-> 0]
    /\ ~call.dry_run
    /\ call.name = "copier"
    /\ resolved = <<"s1", "t2">>
    /\ liked = {"s1"}

\* two ids are reported by a dry run, which wrote none of them
C22_DryRunCounts ==
    /\ printed.shown
    /\ printed.added = 2
    /\ call.dry_run
    /\ WrittenIds = {}

\* an id is reported though its write failed on every attempt
C22_UnwrittenCounts ==
    /\ printed.shown
    /\ printed.added = 1
    /\ ~call.dry_run
    /\ invocation = 1
    /\ WrittenIds = {}

\* ---- malformed source entries

\* the step reads an entry of the source playlist
ReadsEntry == pc = "iterate" /\ entries_read' = entries_read + 1

\* C23 as stated: a malformed entry is skipped, the iteration going on, when
\* "Liked Songs" is iterated, and is re-raised, the iteration ending, when a
\* named playlist is iterated.
C23_MalformedByCollection ==
    [][(ReadsEntry /\ entry' \in {"null", "broken"}) =>
          IF src_pl_id = None
          THEN pc' = "iterate" /\ raised' = "none"
          ELSE pc' = "raised" /\ raised' = "KeyError"]_vars

\* C23 amended: what is done with a malformed entry depends on how it is
\* malformed and not on the collection: an entry whose track is null is
\* skipped and the iteration goes on with the next entry; an entry whose
\* track lacks its album or artist is re-raised, which ends the iteration and
\* the command; this holds for "Liked Songs" and for a named playlist alike.
C23_MalformedByKind ==
    /\ [][ReadsEntry =>
             CASE entry' = "null" ->
                    /\ pc' = "iterate"
                    /\ raised' = "none"
                    /\ error_count' = error_count
                    /\ resolved' = resolved
               [] entry' = "broken" ->
                    /\ pc' = "raised"
                    /\ raised' = "KeyError"
               [] entry' = "track" ->
                    /\ pc' = "lookup"
                    /\ raised' = "none"]_vars
    /\ [][pc # "raised"]_vars

\* C23's case: the second entry of "Liked Songs" lacked its album or artist
\* and was re-raised, after the first entry, whose track was null, had been
\* skipped
C23_Witness ==
    /\ call.name = "copier"
    /\ src_pl_id = None
    /\ pc = "raised"
    /\ raised = "KeyError"
    /\ entry = "broken"
    /\ entries_read = 2
    /\ resolved = <<>>
    /\ error_count = 0

\* an entry of a named playlist whose track is null was skipped, and the next
\* entry is being looked up
C23_NullSkippedInPlaylist ==
    /\ call.name = "copy_playlist"
    /\ src_pl_id = SourceId(1)
    /\ pc = "lookup"
    /\ entries_read = 2
    /\ resolved = <<>>
    /\ error_count = 0

\* ---- the accounting of copier

\* what copier's three tallies add up to
Tallied == Cardinality(tracks_added_set) + duplicate_count + error_count

\* C24: every source track copier consumes is counted in exactly one of the
\* de-duplication set, the duplicate counter and the error counter: the
\* tallies are zero when the loop starts, a track reaches the loop body only
\* by being yielded, the body's step on it raises exactly one of the three by
\* one, and no other step changes any of them; so after each track the
\* tracks consumed so far number set size + duplicates + errors, which is
\* also what the summary's three totals add up to.
C24_EveryTrackTalliedOnce ==
    /\ [][(pc = "copier_start" /\ pc' = "iterate") => Tallied' = 0]_vars
    /\ [][pc' = "lookup" =>
             (pc = "iterate" /\ entry' = "track"
              /\ entries_read' = entries_read + 1)]_vars
    /\ [][pc = "lookup" =>
             /\ pc' # "lookup"
             /\ Tallied' = Tallied + 1
             /\ tracks_added_set \subseteq tracks_added_set'
             /\ duplicate_count' >= duplicate_count
             /\ error_count' >= error_count]_vars
    /\ [][(InCopier /\ pc # "lookup") =>
             /\ tracks_added_set' = tracks_added_set
             /\ duplicate_count' = duplicate_count
             /\ error_count' = error_count]_vars
    /\ [](InCopier =>
             /\ Tallied = Len(resolved) + error_count
             /\ Tallied + (IF pc = "lookup" THEN 1 ELSE 0) <= entries_read)
    /\ [](printed.shown =>
             /\ printed.added + printed.duplicates + printed.errors = Tallied
             /\ Tallied <= entries_read)

\* C24's case: of two tracks consumed the lookup of one failed and the other
\* resolved; the summary reports one added and one error
C24_Witness ==
    /\ printed = [shown |-> TRUE, added |-> 1, duplicates |-> 0, errors |-> 1]
    /\ entries_read = 2
    /\ Len(resolved) = 1
    /\ Tallied = 2

\* ---- termination

\* a retried write has ended: the call returned, or its attempts are used up
OpEnded == op.outcome \in {"ok", "refused", "exhausted"}

\* C25 as stated: copier, once called, reaches its final summary, even when
\* every remote write fails; a retried write makes at most 10 attempts and
\* none after one that succeeded; _ytmusic_create_playlist ends within 10
\* attempts, returning an id or raising.
C25_CopierAlwaysSummarises ==
    /\ (pc = "copier_start") ~> printed.shown
    /\ [](op.tries <= MaxAttempts)
    /\ [][OpEnded => (op' = op \/ op'.tries = 0)]_vars
    /\ (pc = "create") ~> (op.kind = "create" /\ OpEnded)

\* C25 amended: once copier's loop over the source is entered it ends, with
\* the summary when the source iterator is exhausted and without it only
\* when the iterator raises (no such playlist, or a malformed entry), never
\* because of a failing write; a copier that cannot fetch its destination
\* exits before the loop and prints no summary; every step of a retry loop is
\* one attempt, a retried write makes at most 10 attempts and none after one
\* that succeeded; _ytmusic_create_playlist ends within 10 attempts, with a
\* new playlist's id or with YTMusicError.
C25_LoopAlwaysEnds ==
    /\ InCopier ~> (printed.shown \/ RaisedInCopier)
    /\ [](RaisedInCopier => raised \in {"KeyError", "ValueError"})
    /\ [][pc' = "exit" =>
             /\ pc = "copier_start"
             /\ dst_pl_id # None
             /\ printed' = printed
             /\ invocation' = invocation]_vars
    /\ [](op.tries <= MaxAttempts)
    /\ [][(pc \in {"write", "create"}) => op'.tries = op.tries + 1]_vars
    /\ [][OpEnded => (op' = op \/ op'.tries = 0)]_vars
    /\ [](OpEnded => pc \notin {"write", "create"})
    /\ (pc = "create") ~> (op.kind = "create" /\ OpEnded)
    /\ []((op.kind = "create" /\ OpEnded) =>
             IF op.outcome = "ok"
             THEN /\ raised = "none"
                  /\ Len(library) >= 1
                  /\ library[Len(library)].title = pl_name
             ELSE pc = "raised" /\ raised = "YTMusicError")

\* C25's case: a run of copier without dry-run resolved two tracks, every
\* write of both failed, and the summary was printed
C25_Witness ==
    /\ call.name = "copier"
    /\ ~call.dry_run
    /\ printed.shown
    /\ printed.added = 2
    /\ WrittenIds = {}
    /\ pc = "done"

\* copier was entered and ended without a summary: it could not fetch the
\* destination it was given
C25_ExitedBeforeLoop ==
    /\ pc = "exit"
    /\ call.name = "copy_playlist"
    /\ invocation = 0
    /\ ~printed.shown

\* ---- the destinations of a bulk run

\* the first playlist of the library that bears the title
FirstTitled(title) ==
    {i \in 1..Len(library) :
        /\ library[i].title = title
        /\ \A j \in 1..(i - 1) : library[j].title # title}

\* C26: with a listing that shows every playlist created so far,
\* copy_all_playlists creates a playlist only under a title no playlist of
\* the library bears, the ones it created earlier in the run included, and
\* never under the empty title; the destination of a transfer is the first
\* playlist bearing the title looked up, and no playlist is renamed or
\* removed, so source playlists of the same name go into the same
\* destination; and the title looked up is the source playlist's name or,
\* for an empty name, "Unnamed Spotify Playlist <id>".
C26_BulkNeverDuplicatesTitles ==
    /\ [][(Bulk /\ Len(library') # Len(library)) =>
             /\ pc = "create"
             /\ library' = Created(library, pl_name)
             /\ pl_name # <<>>
             /\ \A i \in 1..Len(library) : library[i].title # pl_name]_vars
    /\ [](Bulk => \A i \in (Len(library0) + 1)..Len(library) :
                     \A j \in 1..(i - 1) : library[j].title # library[i].title)
    /\ []((Bulk /\ (pc = "copier_start" \/ InCopier)) =>
             /\ \E i \in FirstTitled(pl_name) : library[i].playlistId = dst_pl_id
             /\ pl_name \in {<<"A">>, UnnamedPrefix \o SourceId(pl_index)})
    /\ [][Bulk => \A i \in 1..Len(library) :
                     /\ i <= Len(library')
                     /\ library'[i].title = library[i].title
                     /\ library'[i].playlistId = library[i].playlistId]_vars

\* C26's case: an empty library and two source playlists named "A": the
\* first turn created the destination, the second turn found it, and the
\* tracks of both are in it
C26_Witness ==
    /\ Bulk
    /\ library0 = <<>>
    /\ pl_index = 2
    /\ invocation = 2
    /\ skipped = 0
    /\ Len(library) = 1
    /\ pl_name = <<"A">>
    /\ dst_pl_id = library[1].playlistId
    /\ library[1].tracks = {"s1", "t2"}
    /\ printed.shown

\* two source playlists without a name went into two destinations, each
\* titled with its own id
C26_UnnamedApart ==
    /\ Bulk
    /\ invocation = 2
    /\ Len(library) = Len(library0) + 2
    /\ library[Len(library) - 1].title = UnnamedPrefix \o SourceId(1)
    /\ library[Len(library)].title = UnnamedPrefix \o SourceId(2)
    /\ dst_pl_id = library[Len(library)].playlistId

====
